---- MODULE Spec2Model ----
(***************************************************************************)
(* Model of zhaomma/VideoChangeDetector.                                   *)
(*                                                                         *)
(*   video_processor.py  VideoProcessor: crop_region, detect_change,       *)
(*                       save_screenshot, process_video                    *)
(*   main.py             VideoChangeDetectorApp: start_processing,         *)
(*                       cancel_processing and the worker thread           *)
(*                                                                         *)
(* A frame is a sequence of rows, a row a sequence of BGR pixels; numpy's  *)
(* 0-based index i is position i+1 here.  Video time is frame_count / fps, *)
(* a float in the code; the model keeps it as an exact fraction <<n, d>>.  *)
(***************************************************************************)
EXTENDS Integers, Sequences, FiniteSets, TLC

\* ------------------------------------------------------------------------
\* Bounds of the model
\* ------------------------------------------------------------------------
FrameW == 2
FrameH == 2
MaxThreshold == 4
MaxFrames == 5
MaxScans == 2
MaxWorkers == 3
MaxWorkerFrames == 2

\* ------------------------------------------------------------------------
\* Values
\* ------------------------------------------------------------------------
None == <<>>

Min(a, b) == IF a < b THEN a ELSE b

Max(a, b) == IF a > b THEN a ELSE b

Abs(a) == IF a < 0 THEN -a ELSE a

\* BGR pixels: luminance 0, 30, 31 and 255 after conversion.
Black == <<0, 0, 0>>

Red100 == <<0, 0, 100>>

Red103 == <<0, 0, 103>>

White == <<255, 255, 255>>

Palette == {Black, Red100, Red103, White}

\* cv2.cvtColor(..., COLOR_BGR2GRAY) on one 8-bit pixel: fixed-point
\* 0.114 B + 0.587 G + 0.299 R, rounded.
GrayPixel(p) == (p[1] * 1868 + p[2] * 9617 + p[3] * 4899 + 8192) \div 16384

\* The frame whose first k pixels in raster order have colour c, the rest
\* being black.
PrefixFrame(c, k) ==
    [r \in 1..FrameH |-> [x \in 1..FrameW |->
        IF (r - 1) * FrameW + x <= k THEN c ELSE Black]]

DetectFrames ==
    {PrefixFrame(c, k) : c \in Palette \ {Black}, k \in 0..(FrameW * FrameH)}

\* Frames a stream delivers in the scan model.
ScanFrames == {PrefixFrame(White, 0), PrefixFrame(White, 3)}

\* Regions (x, y, w, h) with a non-negative corner, inside the frame or not.
AllRegions ==
    {<<x, y, w, h>> : x \in 0..FrameW, y \in 0..FrameH, w \in 0..FrameW, h \in 0..FrameH}

InsideFrame(rg) ==
    /\ rg[3] > 0
    /\ rg[4] > 0
    /\ rg[1] >= 0
    /\ rg[2] >= 0
    /\ rg[1] + rg[3] <= FrameW
    /\ rg[2] + rg[4] <= FrameH

\* ------------------------------------------------------------------------
\* VideoProcessor.crop_region and detect_change
\* ------------------------------------------------------------------------
\* numpy's s[a:b] for a sequence s: negative bounds count from the end, all
\* bounds are clipped to the length.
SliceBound(i, n) == IF i < 0 THEN Max(i + n, 0) ELSE Min(i, n)

Slice(s, a, b) == SubSeq(s, SliceBound(a, Len(s)) + 1, SliceBound(b, Len(s)))

\* Mutant: the region is ignored and the whole frame compared.
crop_region_whole_frame(region, frame) == frame

crop_region(region, frame) ==
    IF region = None
    THEN frame
    ELSE LET x == region[1]
             y == region[2]
             w == region[3]
             h == region[4]
             rows == Slice(frame, y, y + h)
         IN  [r \in 1..Len(rows) |-> Slice(rows[r], x, x + w)]

\* An array with no element: cv2.cvtColor raises cv2.error on it.
IsEmptyImage(img) == Len(img) = 0 \/ Len(img[1]) = 0

cvtColor(img) == [r \in 1..Len(img) |-> [x \in 1..Len(img[r]) |-> GrayPixel(img[r][x])]]

absdiff(a, b) == [r \in 1..Len(a) |-> [x \in 1..Len(a[r]) |-> Abs(a[r][x] - b[r][x])]]

\* Mutant: a difference equal to the cutoff counts as well.
threshold_inclusive(src, thresh, maxval) ==
    [r \in 1..Len(src) |-> [x \in 1..Len(src[r]) |->
        IF src[r][x] >= thresh THEN maxval ELSE 0]]

\* cv2.threshold(src, thresh, maxval, THRESH_BINARY): maxval where
\* src > thresh, 0 elsewhere.
threshold(src, thresh, maxval) ==
    [r \in 1..Len(src) |-> [x \in 1..Len(src[r]) |->
        IF src[r][x] > thresh THEN maxval ELSE 0]]

RECURSIVE SumSeq(_)
SumSeq(s) == IF s = <<>> THEN 0 ELSE s[1] + SumSeq(Tail(s))

RECURSIVE SumImage(_)
SumImage(img) == IF img = <<>> THEN 0 ELSE SumSeq(img[1]) + SumImage(Tail(img))

\* The number detect_change compares with change_threshold.
change_count(last, cur, region) ==
    LET current_gray == cvtColor(crop_region(region, cur))
        last_gray == cvtColor(crop_region(region, last))
        frame_diff == absdiff(current_gray, last_gray)
        thresh == threshold(frame_diff, 30, 255)
    IN  SumImage(thresh) \div 255

\* Mutant: the stored frame is replaced only when a change is reported.
detect_change_keeps_baseline(last, cur, region, thr) ==
    IF last = None
    THEN [ret |-> "False", last_frame |-> cur]
    ELSE IF IsEmptyImage(crop_region(region, cur))
         THEN [ret |-> "raised", last_frame |-> last]
         ELSE IF change_count(last, cur, region) > thr
              THEN [ret |-> "True", last_frame |-> cur]
              ELSE [ret |-> "False", last_frame |-> last]

\* detect_change: the value returned (or "raised"), and self.last_frame
\* after the call.
detect_change(last, cur, region, thr) ==
    IF last = None
    THEN [ret |-> "False", last_frame |-> cur]
    ELSE IF IsEmptyImage(crop_region(region, cur))
         THEN [ret |-> "raised", last_frame |-> last]
         ELSE [ret |-> IF change_count(last, cur, region) > thr THEN "True" ELSE "False",
               last_frame |-> cur]

\* ------------------------------------------------------------------------
\* State
\* ------------------------------------------------------------------------
VARIABLES
    \* the VideoProcessor object
    constructed,            \* __init__ has run
    sensitivity,
    min_scene_len,
    region,                 \* None or (x, y, w, h)
    last_frame,             \* None or the previous frame
    change_threshold,
    \* the screenshot directory
    dir_exists,
    dir_touched,            \* created or written since __init__ began
    \* one call of process_video
    pc,                     \* "idle", "loop", "returned", "raised"
    cap_open,               \* "none", "open", "released"
    fps,                    \* <<numerator, denominator>>
    total_frames,
    stream_len,             \* frames the stream delivers before its end
    has_callback,
    frame_count,
    last_screenshot_time,   \* a fraction
    change_events,
    returned,               \* <<the list handed to the caller>>, None if none was
    scan_no,
    \* what the call did so far
    exit_path,
    flagged,                \* per frame consumed, what detect_change returned
    screenshots,            \* files written by save_screenshot in this call
    progress_calls,         \* the values passed to progress_callback
    dc_prev,                \* self.last_frame before the last detect_change
    dc_cur,                 \* the frame passed to the last detect_change
    dc_ret,                 \* "none", "True", "False", "raised"
    frames_seen,            \* the frames the running scan has consumed
    \* the application
    is_processing,
    worker,                 \* per worker thread: its position
    worker_frames,          \* per worker thread: frames read by its scan
    video_ok,               \* self.video_path names an existing file
    app_region,             \* self.region of the application
    sensitivity_var,
    threshold_var,
    start_result,           \* what the last start_processing did
    cancelled_at,           \* per worker: frames it had read when a scan of
                            \* its was cancelled, -1 if none was
    \* the RegionSelector object and one call of select_region
    sel_pc,                 \* "idle", "loop", "done"
    sel_frame,              \* <<width, height>> of the frame given
    sel_screen,             \* <<width, height>> of the screen
    scale_factor,           \* a fraction
    sel_shown,              \* <<width, height>> of the frame displayed
    sel_region,             \* self.region: None or (x, y, w, h), display space
    drawing,
    ix,
    iy,
    sel_exit,               \* "none", "confirm", "cancel"
    sel_result,             \* what select_region returned
    sel_log,                \* the pointer events and keys of the call
    \* two scans of one video
    earlier                 \* None or the record of the scan made before the
                            \* processor was replaced

procVars == <<constructed, sensitivity, min_scene_len, region, last_frame, change_threshold>>

dirVars == <<dir_exists, dir_touched>>

callVars ==
    <<pc, cap_open, fps, total_frames, stream_len, has_callback, frame_count,
      last_screenshot_time, change_events, returned, scan_no>>

histVars == <<exit_path, flagged, screenshots, progress_calls>>

dcVars == <<dc_prev, dc_cur, dc_ret, frames_seen>>

appVars ==
    <<is_processing, worker, worker_frames, video_ok, app_region,
      sensitivity_var, threshold_var, start_result, cancelled_at>>

selVars ==
    <<sel_pc, sel_frame, sel_screen, scale_factor, sel_shown, sel_region,
      drawing, ix, iy, sel_exit, sel_result, sel_log>>

twinVars == <<earlier>>

vars == <<procVars, dirVars, callVars, histVars, dcVars, appVars, selVars, twinVars>>

Workers == 1..MaxWorkers

\* self.change_threshold = 500 in __init__
DefaultThreshold == 500

\* __init__'s default arguments
DefaultSensitivity == 30

DefaultMinSceneLen == 15

\* fps values a stream reports, as fractions; 0 is "unavailable".
FpsChoices == {<<1, 1>>, <<2, 1>>, <<3, 1>>, <<5, 2>>}

TotalChoices == {0, 2, MaxFrames}

\* frames a stream really holds
LenChoices == {2, MaxFrames}

ScanRegions == {None, <<0, 0, 1, 2>>, <<FrameW, 0, 1, 1>>}

ScanThresholds == {0, 2}

\* (sensitivity, min_scene_len) pairs given to the constructor
ConstructorArgs == {<<DefaultSensitivity, DefaultMinSceneLen>>, <<25, 5>>}

AppIdle ==
    /\ is_processing = FALSE
    /\ worker = [w \in Workers |-> "unstarted"]
    /\ worker_frames = [w \in Workers |-> 0]
    /\ video_ok = FALSE
    /\ app_region = None
    /\ sensitivity_var = DefaultSensitivity
    /\ threshold_var = DefaultThreshold
    /\ start_result = "none"
    /\ cancelled_at = [w \in Workers |-> -1]

\* The state after RegionSelector.__init__
SelIdle ==
    /\ sel_pc = "idle"
    /\ sel_frame = <<0, 0>>
    /\ sel_screen = <<0, 0>>
    /\ scale_factor = <<1, 1>>
    /\ sel_shown = <<0, 0>>
    /\ sel_region = None
    /\ drawing = FALSE
    /\ ix = -1
    /\ iy = -1
    /\ sel_exit = "none"
    /\ sel_result = None
    /\ sel_log = <<>>

TwinIdle == earlier = None

CallIdle ==
    /\ pc = "idle"
    /\ cap_open = "none"
    /\ fps = <<0, 1>>
    /\ total_frames = 0
    /\ stream_len = 0
    /\ has_callback = FALSE
    /\ frame_count = 0
    /\ last_screenshot_time = <<0, 1>>
    /\ change_events = <<>>
    /\ returned = None
    /\ scan_no = 0
    /\ exit_path = "none"
    /\ flagged = <<>>
    /\ screenshots = 0
    /\ progress_calls = <<>>

DcIdle ==
    /\ dc_prev = None
    /\ dc_cur = None
    /\ dc_ret = "none"
    /\ frames_seen = <<>>

\* ------------------------------------------------------------------------
\* VideoProcessor: construction and configuration
\* ------------------------------------------------------------------------
Init ==
    /\ constructed = FALSE
    /\ sensitivity = 0
    /\ min_scene_len = 0
    /\ region = None
    /\ last_frame = None
    /\ change_threshold = 0
    /\ dir_exists \in BOOLEAN
    /\ dir_touched = FALSE
    /\ CallIdle
    /\ DcIdle
    /\ AppIdle
    /\ SelIdle
    /\ TwinIdle

\* VideoProcessor(sensitivity, min_scene_len)
Construct(args) ==
    /\ ~constructed
    /\ pc = "idle"
    /\ constructed' = TRUE
    /\ sensitivity' = args[1]
    /\ min_scene_len' = args[2]
    /\ region' = None
    /\ last_frame' = None
    /\ change_threshold' = DefaultThreshold
    /\ dir_exists' = TRUE
    /\ dir_touched' = ~dir_exists
    /\ UNCHANGED <<callVars, histVars, dcVars, appVars, selVars, twinVars>>

\* processor.set_region(rg); processor.change_threshold = thr
Configure(rg, thr) ==
    /\ constructed
    /\ pc = "idle"
    /\ region' = rg
    /\ change_threshold' = thr
    /\ UNCHANGED <<constructed, sensitivity, min_scene_len, last_frame>>
    /\ UNCHANGED <<dirVars, callVars, histVars, dcVars, appVars, selVars, twinVars>>

\* ------------------------------------------------------------------------
\* VideoProcessor.process_video
\* ------------------------------------------------------------------------
\* a - b >= 1 for fractions a and b with positive denominators
DiffAtLeastOne(a, b) == a[1] * b[2] - b[1] * a[2] >= a[2] * b[2]

\* frame_count / fps
TimeOf(n, f) == <<n * f[2], f[1]>>

\* Mutant: the percentage is taken before the frame is counted.
ProgressOf_before_count(n, total) == <<(n - 1) * 100, total>>

\* (frame_count / total_frames) * 100
ProgressOf(n, total) == <<n * 100, total>>

\* What every entry of process_video does to the record of the call.
EnterCall ==
    /\ constructed
    /\ pc = "idle"
    /\ scan_no < MaxScans
    /\ scan_no' = scan_no + 1
    /\ returned' = None
    /\ flagged' = <<>>
    /\ screenshots' = 0
    /\ progress_calls' = <<>>
    /\ frame_count' = 0
    /\ last_screenshot_time' = <<0, 1>>
    /\ change_events' = <<>>
    /\ dc_prev' = None
    /\ dc_cur' = None
    /\ dc_ret' = "none"
    /\ frames_seen' = <<>>

\* os.path.exists(video_path) is false: FileNotFoundError
PathMissing ==
    /\ EnterCall
    /\ pc' = "raised"
    /\ exit_path' = "not_found"
    /\ cap_open' = "none"
    /\ UNCHANGED <<fps, total_frames, stream_len, has_callback>>
    /\ UNCHANGED <<procVars, dirVars, appVars, selVars, twinVars>>

\* cap.isOpened() is false: Exception("Failed to open video file")
OpenFailed ==
    /\ EnterCall
    /\ pc' = "raised"
    /\ exit_path' = "open_failed"
    /\ cap_open' = "none"
    /\ UNCHANGED <<fps, total_frames, stream_len, has_callback>>
    /\ UNCHANGED <<procVars, dirVars, appVars, selVars, twinVars>>

\* The stream opens and reports fps = 0: total_frames / fps raises
\* ZeroDivisionError before the scan state is reset.
MetadataRaises(total, len) ==
    /\ EnterCall
    /\ pc' = "raised"
    /\ exit_path' = "metadata_exception"
    /\ cap_open' = "open"
    /\ fps' = <<0, 1>>
    /\ total_frames' = total
    /\ stream_len' = len
    /\ UNCHANGED has_callback
    /\ UNCHANGED <<procVars, dirVars, appVars, selVars, twinVars>>

\* Mutant: the previous frame of the earlier scan is kept.
StartScan_keeps_last_frame(f, total, len, cb) ==
    /\ EnterCall
    /\ pc' = "loop"
    /\ exit_path' = "none"
    /\ cap_open' = "open"
    /\ fps' = f
    /\ total_frames' = total
    /\ stream_len' = len
    /\ has_callback' = cb
    /\ UNCHANGED procVars
    /\ UNCHANGED <<dirVars, appVars, selVars, twinVars>>

\* The stream opens with fps > 0: lines 116-119 reset the scan state.
StartScan(f, total, len, cb) ==
    /\ EnterCall
    /\ pc' = "loop"
    /\ exit_path' = "none"
    /\ cap_open' = "open"
    /\ fps' = f
    /\ total_frames' = total
    /\ stream_len' = len
    /\ has_callback' = cb
    /\ last_frame' = None
    /\ UNCHANGED <<constructed, sensitivity, min_scene_len, region, change_threshold>>
    /\ UNCHANGED <<dirVars, appVars, selVars, twinVars>>

\* cap.read() returns ret = False at the end of the stream: break, release,
\* return change_events.
EndOfStream ==
    /\ pc = "loop"
    /\ frame_count = stream_len
    /\ pc' = "returned"
    /\ cap_open' = "released"
    /\ returned' = <<change_events>>
    /\ exit_path' = "eof"
    /\ UNCHANGED <<fps, total_frames, stream_len, has_callback, frame_count,
                   last_screenshot_time, change_events, scan_no>>
    /\ UNCHANGED <<flagged, screenshots, progress_calls>>
    /\ UNCHANGED <<procVars, dirVars, dcVars, appVars, selVars, twinVars>>

\* cap.read() returns ret = False because a frame could not be decoded: the
\* code cannot tell it from the end of the stream.
ReadFailure ==
    /\ pc = "loop"
    /\ frame_count < stream_len
    /\ pc' = "returned"
    /\ cap_open' = "released"
    /\ returned' = <<change_events>>
    /\ exit_path' = "read_failure"
    /\ UNCHANGED <<fps, total_frames, stream_len, has_callback, frame_count,
                   last_screenshot_time, change_events, scan_no>>
    /\ UNCHANGED <<flagged, screenshots, progress_calls>>
    /\ UNCHANGED <<procVars, dirVars, dcVars, appVars, selVars, twinVars>>

\* Mutant: no throttle, every flagged frame is saved.
ShouldSave_always(current_time, last_time) == TRUE

\* The throttle test of line 133.
ShouldSave(current_time, last_time) == DiffAtLeastOne(current_time, last_time)

\* Mutant: the pixel-count cutoff is raised as sensitivity falls below 100.
Detect_cutoff_from_sensitivity(frame) ==
    /\ pc = "loop"
    /\ frame_count < stream_len
    /\ frame_count' = frame_count + 1
    /\ frames_seen' = Append(frames_seen, frame)
    /\ dc_prev' = last_frame
    /\ dc_cur' = frame
    /\ dc_ret' = detect_change(last_frame, frame, region,
                      change_threshold + (100 - sensitivity) \div 25).ret
    /\ last_frame' = detect_change(last_frame, frame, region,
                          change_threshold + (100 - sensitivity) \div 25).last_frame
    /\ UNCHANGED <<constructed, sensitivity, min_scene_len, region, change_threshold>>
    /\ UNCHANGED <<fps, total_frames, stream_len, has_callback, scan_no, appVars, selVars, twinVars, dir_exists>>

\* Lines 127-131 for a frame the stream delivered: the counter, the time,
\* and the call of detect_change.
Detect(frame) ==
    /\ pc = "loop"
    /\ frame_count < stream_len
    /\ frame_count' = frame_count + 1
    /\ frames_seen' = Append(frames_seen, frame)
    /\ dc_prev' = last_frame
    /\ dc_cur' = frame
    /\ dc_ret' = detect_change(last_frame, frame, region, change_threshold).ret
    /\ last_frame' = detect_change(last_frame, frame, region, change_threshold).last_frame
    /\ UNCHANGED <<constructed, sensitivity, min_scene_len, region, change_threshold>>
    /\ UNCHANGED <<fps, total_frames, stream_len, has_callback, scan_no, appVars, selVars, twinVars, dir_exists>>

\* detect_change raises (cv2.error on an empty crop): the exception leaves
\* process_video.
DetectRaises(frame) ==
    /\ Detect(frame)
    /\ dc_ret' = "raised"
    /\ pc' = "raised"
    /\ exit_path' = "detect_exception"
    /\ UNCHANGED <<cap_open, last_screenshot_time, change_events, returned>>
    /\ UNCHANGED <<flagged, screenshots, progress_calls, dir_touched>>

\* Lines 132-145 are entered for this frame.
Saves(frame) ==
    /\ dc_ret' = "True"
    /\ ShouldSave(TimeOf(frame_count', fps), last_screenshot_time)

\* save_screenshot raises (img.save cannot write the file): the exception
\* leaves process_video.
SaveRaises(frame) ==
    /\ Detect(frame)
    /\ Saves(frame)
    /\ pc' = "raised"
    /\ exit_path' = "save_exception"
    /\ flagged' = Append(flagged, dc_ret')
    /\ UNCHANGED <<cap_open, last_screenshot_time, change_events, returned>>
    /\ UNCHANGED <<screenshots, progress_calls, dir_touched>>

\* Mutant: the new event is put in front of the list.
DetectAndSave_prepends(frame) ==
    /\ Detect(frame)
    /\ dc_ret' # "raised"
    /\ flagged' = Append(flagged, dc_ret')
    /\ IF Saves(frame)
       THEN /\ screenshots' = screenshots + 1
            /\ dir_touched' = TRUE
            /\ last_screenshot_time' = TimeOf(frame_count', fps)
            /\ change_events' =
                   <<[frame_number |-> frame_count',
                      time_seconds |-> TimeOf(frame_count', fps)]>> \o change_events
       ELSE UNCHANGED <<screenshots, dir_touched, last_screenshot_time, change_events>>

\* Lines 131-145 without an exception: the event and its screenshot, if any.
DetectAndSave(frame) ==
    /\ Detect(frame)
    /\ dc_ret' # "raised"
    /\ flagged' = Append(flagged, dc_ret')
    /\ IF Saves(frame)
       THEN /\ screenshots' = screenshots + 1
            /\ dir_touched' = TRUE
            /\ last_screenshot_time' = TimeOf(frame_count', fps)
            /\ change_events' = Append(change_events,
                   [frame_number |-> frame_count',
                    time_seconds |-> TimeOf(frame_count', fps)])
       ELSE UNCHANGED <<screenshots, dir_touched, last_screenshot_time, change_events>>

\* One iteration of the loop that ends normally.
ProcessFrame(frame) ==
    /\ DetectAndSave(frame)
    /\ has_callback => total_frames # 0
    /\ progress_calls' =
           IF has_callback
           THEN Append(progress_calls, ProgressOf(frame_count', total_frames))
           ELSE progress_calls
    /\ UNCHANGED <<pc, cap_open, returned, exit_path>>

\* Lines 148-150 raise: ZeroDivisionError when total_frames is 0.
ProgressRaises(frame) ==
    /\ DetectAndSave(frame)
    /\ has_callback
    /\ total_frames = 0
    /\ pc' = "raised"
    /\ exit_path' = "progress_exception"
    /\ UNCHANGED <<cap_open, returned, progress_calls>>

\* progress_callback itself raises.
CallbackRaises(frame) ==
    /\ DetectAndSave(frame)
    /\ has_callback
    /\ total_frames # 0
    /\ pc' = "raised"
    /\ exit_path' = "callback_exception"
    /\ progress_calls' = Append(progress_calls, ProgressOf(frame_count', total_frames))
    /\ UNCHANGED <<cap_open, returned>>

\* The caller has the result or the exception; the processor is free for
\* the next call.
Finish ==
    /\ pc \in {"returned", "raised"}
    /\ pc' = "idle"
    /\ UNCHANGED <<cap_open, fps, total_frames, stream_len, has_callback, frame_count,
                   last_screenshot_time, change_events, returned, scan_no>>
    /\ UNCHANGED <<procVars, dirVars, histVars, dcVars, appVars, selVars, twinVars>>

Next ==
    \/ \E args \in ConstructorArgs : Construct(args)
    \/ \E rg \in ScanRegions, thr \in ScanThresholds : Configure(rg, thr)
    \/ PathMissing
    \/ OpenFailed
    \/ \E total \in TotalChoices, len \in LenChoices : MetadataRaises(total, len)
    \/ \E f \in FpsChoices, total \in TotalChoices, len \in LenChoices, cb \in BOOLEAN :
           StartScan(f, total, len, cb)
    \/ EndOfStream
    \/ ReadFailure
    \/ \E frame \in ScanFrames : DetectRaises(frame)
    \/ \E frame \in ScanFrames : SaveRaises(frame)
    \/ \E frame \in ScanFrames : ProcessFrame(frame)
    \/ \E frame \in ScanFrames : ProgressRaises(frame)
    \/ \E frame \in ScanFrames : CallbackRaises(frame)
    \/ Finish

Spec == Init /\ [][Next]_vars

\* ------------------------------------------------------------------------
\* Properties of process_video (specification Spec)
\* ------------------------------------------------------------------------
EventFrames == {change_events[k].frame_number : k \in 1..Len(change_events)}

\* The events emitted before frame i of the running scan.
EventsBefore(i) == {k \in 1..Len(change_events) : change_events[k].frame_number < i}

LastEventBefore(i) ==
    CHOOSE k \in EventsBefore(i) : \A j \in EventsBefore(i) : j <= k

\* (a - b) < 1 for fractions
DiffBelowOne(a, b) == a[1] * b[2] - b[1] * a[2] < a[2] * b[2]

\* C2 (as claimed): every frame flagged as changed emits an event iff it is
\* at least 1.0 s of video time after the last emitted event or no event has
\* been emitted yet in the scan.  (A frame whose screenshot could not be
\* written is left out: that is C9.)
C2_EmitIffElapsedOrFirst ==
    exit_path # "save_exception" =>
        \A i \in 1..Len(flagged) :
            flagged[i] = "True" =>
                ((i \in EventFrames) <=>
                    \/ EventsBefore(i) = {}
                    \/ DiffAtLeastOne(TimeOf(i, fps),
                                      change_events[LastEventBefore(i)].time_seconds))

\* Every frame that detect_change can flag (all but the first) was flagged.
AllFlagged == \A i \in 2..Len(flagged) : flagged[i] = "True"

\* The events inside the 1-second window of video time that ends at frame i.
EventsInWindowEndingAt(i) ==
    {k \in 1..Len(change_events) :
        /\ change_events[k].frame_number <= i
        /\ DiffBelowOne(TimeOf(i, fps), change_events[k].time_seconds)}

\* C3 (as claimed): two events of a scan are at least 1.0 s (fps frames)
\* apart, and when every frame is flagged the 1-second window that ends at a
\* flagged frame holds exactly one event: the frame itself when it is the
\* first of its window, the event that suppresses it otherwise.
C3_OneEventPerWindow ==
    /\ \A j, k \in 1..Len(change_events) :
           j < k =>
               /\ DiffAtLeastOne(change_events[k].time_seconds, change_events[j].time_seconds)
               /\ (change_events[k].frame_number - change_events[j].frame_number) * fps[2]
                      >= fps[1]
    /\ (exit_path # "save_exception" /\ AllFlagged) =>
           \A i \in 2..Len(flagged) : Cardinality(EventsInWindowEndingAt(i)) = 1

\* C4: detect_change on the first frame of a scan returns False and stores
\* the frame, in the first scan of a processor and in every later one.
C4_FirstFrameNoChange ==
    frame_count = 1 =>
        /\ dc_ret = "False"
        /\ dc_cur # None
        /\ last_frame = dc_cur

C4_Witness ==
    /\ scan_no = 2
    /\ frame_count = 1
    /\ dc_ret = "False"
    /\ change_threshold = 0
    /\ dc_cur = PrefixFrame(White, 3)

\* C8 (as claimed): when process_video has returned or raised, the stream
\* handle it opened is not open any more.
C8_HandleReleasedOnExit == pc \in {"returned", "raised"} => cap_open # "open"

\* C9 (as claimed): after a failed screenshot write the scan goes on, it is
\* not left by the exception.
C9_SaveFailureDoesNotAbort == exit_path = "save_exception" => pc = "loop"

\* C10 (as claimed): the first scan of a processor, given a path that does
\* not exist, raises before a frame is read and with the screenshot
\* directory neither created nor written since the processor's construction.
C10_MissingPathTouchesNothing ==
    (exit_path = "not_found" /\ scan_no = 1) =>
        /\ pc \in {"raised", "idle"}
        /\ frame_count = 0
        /\ ~dir_touched

\* ------------------------------------------------------------------------
\* detect_change called frame after frame (specification SpecDetect)
\* ------------------------------------------------------------------------
DetectRegions == {None} \cup AllRegions

InitDetect ==
    /\ constructed = TRUE
    /\ sensitivity = DefaultSensitivity
    /\ min_scene_len = DefaultMinSceneLen
    /\ region \in DetectRegions
    /\ last_frame = None
    /\ change_threshold \in 0..MaxThreshold
    /\ dir_exists = TRUE
    /\ dir_touched = FALSE
    /\ CallIdle
    /\ DcIdle
    /\ AppIdle
    /\ SelIdle
    /\ TwinIdle

\* processor.detect_change(frame)
DetectCall(frame) ==
    /\ constructed
    /\ pc = "idle"
    /\ dc_prev' = last_frame
    /\ dc_cur' = frame
    /\ UNCHANGED frames_seen
    /\ dc_ret' = detect_change(last_frame, frame, region, change_threshold).ret
    /\ last_frame' = detect_change(last_frame, frame, region, change_threshold).last_frame
    /\ UNCHANGED <<constructed, sensitivity, min_scene_len, region, change_threshold>>
    /\ UNCHANGED <<dirVars, callVars, histVars, appVars, selVars, twinVars>>

NextDetect == \E frame \in DetectFrames : DetectCall(frame)

SpecDetect == InitDetect /\ [][NextDetect]_vars

\* The pixels of a frame that lie in the region: all of them without a
\* region, else rows y+1..y+h and columns x+1..x+w as far as the frame has
\* them.
RegionPixels(rg) ==
    {q \in (1..FrameH) \X (1..FrameW) :
        rg # None =>
            /\ rg[2] < q[1]
            /\ q[1] <= rg[2] + rg[4]
            /\ rg[1] < q[2]
            /\ q[2] <= rg[1] + rg[3]}

\* |luminance difference| of the two frames of the last call at pixel q
LumaDiff(q) == Abs(GrayPixel(dc_cur[q[1]][q[2]]) - GrayPixel(dc_prev[q[1]][q[2]]))

Compared == dc_prev # None /\ dc_ret \in {"True", "False"}

\* C5 (as claimed): with a previous frame, detect_change returns True iff
\* more than change_threshold pixels of the region differ in luminance by 30
\* or more.
C5_CountsAtOrAboveCutoff ==
    Compared =>
        (dc_ret = "True" <=>
            Cardinality({q \in RegionPixels(region) : LumaDiff(q) >= 30}) > change_threshold)

\* C5 (amended): with a previous frame, detect_change returns True iff more
\* than change_threshold pixels of the region differ in luminance by more
\* than 30; a difference of exactly 30 does not count, and a count equal to
\* change_threshold is no change.
C5_CountsAboveCutoff ==
    Compared =>
        (dc_ret = "True" <=>
            Cardinality({q \in RegionPixels(region) : LumaDiff(q) > 30}) > change_threshold)

\* Pixels differing by exactly 30 would have tipped the decision.
C5_Witness ==
    /\ Compared
    /\ dc_ret = "False"
    /\ Cardinality({q \in RegionPixels(region) : LumaDiff(q) = 30}) > change_threshold
    /\ Cardinality({q \in RegionPixels(region) : LumaDiff(q) > 30}) = change_threshold
    /\ change_threshold > 0

\* C6: for a w x h region inside the frame, two frames that differ in
\* luminance by more than 30 at every pixel of the region give True iff
\* w * h > change_threshold, and two frames equal inside the region give
\* False.
C6_FullRegionChange ==
    (Compared /\ region # None /\ InsideFrame(region)) =>
        /\ (\A q \in RegionPixels(region) : LumaDiff(q) > 30) =>
               (dc_ret = "True" <=> region[3] * region[4] > change_threshold)
        /\ (\A q \in RegionPixels(region) : dc_cur[q[1]][q[2]] = dc_prev[q[1]][q[2]]) =>
               dc_ret = "False"

\* A 1 x 2 region changed everywhere at threshold 1, inside frames that also
\* differ outside the region.
C6_Witness ==
    /\ Compared
    /\ region = <<0, 0, 1, 2>>
    /\ \A q \in RegionPixels(region) : LumaDiff(q) > 30
    /\ \E q \in (1..FrameH) \X (1..FrameW) : q \notin RegionPixels(region) /\ LumaDiff(q) > 30
    /\ change_threshold = 1
    /\ dc_ret = "True"

\* ------------------------------------------------------------------------
\* The 300-frame scenario (specification SpecScenario)
\* ------------------------------------------------------------------------
\* Frame i (0-based) of the synthetic stream: frames 0..149 are equal, each
\* frame from 150 on differs from its predecessor in three pixels of the
\* region, which stand for the scenario's 3000 pixels as threshold 2 stands
\* for its 2000.
ScenarioFrame(i) ==
    IF i < 150 \/ (i - 150) % 2 = 1
    THEN PrefixFrame(White, 0)
    ELSE PrefixFrame(White, 3)

InitScenario ==
    /\ constructed = TRUE
    /\ sensitivity = DefaultSensitivity
    /\ min_scene_len = DefaultMinSceneLen
    /\ region = <<0, 0, FrameW, FrameH>>
    /\ last_frame \in {None} \cup ScanFrames
    /\ change_threshold = 2
    /\ dir_exists = TRUE
    /\ dir_touched = FALSE
    /\ CallIdle
    /\ DcIdle
    /\ AppIdle
    /\ SelIdle
    /\ TwinIdle

NextScenario ==
    \/ \E cb \in BOOLEAN : StartScan(<<30, 1>>, 300, 300, cb) /\ scan_no = 0
    \/ ProcessFrame(ScenarioFrame(frame_count))
    \/ EndOfStream
    \/ Finish

SpecScenario == InitScenario /\ [][NextScenario]_vars

\* C7: the scan of the scenario stream emits its first event at frame 151
\* (151/30 s, about 5.0 s) and no other event up to 6.0 s of video time;
\* while the scan runs, no event exists before frame 151 is consumed.
C7_ScenarioFirstEvent ==
    /\ (frame_count < 151) => change_events = <<>>
    /\ (pc # "idle" /\ frame_count >= 151) =>
           /\ Len(change_events) >= 1
           /\ change_events[1].frame_number = 151
           /\ change_events[1].time_seconds = <<151, 30>>
           /\ \A k \in 2..Len(change_events) :
                  change_events[k].time_seconds[1] > 6 * change_events[k].time_seconds[2]
    /\ pc = "returned" => returned = <<change_events>>

C7_Witness ==
    /\ pc = "returned"
    /\ frame_count = 300
    /\ Len(returned[1]) > 1
    /\ returned[1][1].frame_number = 151
    /\ returned[1][2].frame_number = 181

\* ------------------------------------------------------------------------
\* VideoChangeDetectorApp (specification SpecApp)
\* ------------------------------------------------------------------------
\* The state after VideoChangeDetectorApp.__init__, which constructs its
\* VideoProcessor.
InitApp ==
    /\ constructed = TRUE
    /\ sensitivity = DefaultSensitivity
    /\ min_scene_len = DefaultMinSceneLen
    /\ region = None
    /\ last_frame = None
    /\ change_threshold = DefaultThreshold
    /\ dir_exists = TRUE
    /\ dir_touched \in BOOLEAN
    /\ CallIdle
    /\ DcIdle
    /\ AppIdle
    /\ SelIdle
    /\ TwinIdle

procFixed == <<constructed, min_scene_len, last_frame>>

\* select_video: a file is picked, the region is forgotten.
SelectVideo ==
    /\ video_ok' = TRUE
    /\ app_region' = None
    /\ UNCHANGED <<is_processing, worker, worker_frames, sensitivity_var, threshold_var,
                   start_result>>
    /\ UNCHANGED cancelled_at
    /\ UNCHANGED <<procVars, dirVars, callVars, histVars, dcVars, selVars, twinVars>>

\* select_region: the selector returns a region or None.
SelectRegion(rg) ==
    /\ video_ok
    /\ app_region' = rg
    /\ UNCHANGED <<is_processing, worker, worker_frames, video_ok, sensitivity_var,
                   threshold_var, start_result>>
    /\ UNCHANGED cancelled_at
    /\ UNCHANGED <<procVars, dirVars, callVars, histVars, dcVars, selVars, twinVars>>

\* The two sliders.
MoveSliders(sv, tv) ==
    /\ sensitivity_var' = sv
    /\ threshold_var' = tv
    /\ UNCHANGED <<is_processing, worker, worker_frames, video_ok, app_region, start_result>>
    /\ UNCHANGED cancelled_at
    /\ UNCHANGED <<procVars, dirVars, callVars, histVars, dcVars, selVars, twinVars>>

Unstarted == {w \in Workers : worker[w] = "unstarted"}

\* start_processing while is_processing is set: the notice, nothing else.
StartRejected ==
    /\ is_processing
    /\ start_result' = "rejected"
    /\ UNCHANGED <<is_processing, worker, worker_frames, video_ok, app_region,
                   sensitivity_var, threshold_var>>
    /\ UNCHANGED cancelled_at
    /\ UNCHANGED <<procVars, dirVars, callVars, histVars, dcVars, selVars, twinVars>>

\* start_processing otherwise: the flag is set and a new thread runs
\* process_video of the application.
StartProcessing ==
    /\ ~is_processing
    /\ Unstarted # {}
    /\ is_processing' = TRUE
    /\ worker' = [worker EXCEPT ![CHOOSE w \in Unstarted : \A v \in Unstarted : w <= v] = "started"]
    /\ start_result' = "started"
    /\ UNCHANGED <<worker_frames, video_ok, app_region, sensitivity_var, threshold_var>>
    /\ UNCHANGED cancelled_at
    /\ UNCHANGED <<procVars, dirVars, callVars, histVars, dcVars, selVars, twinVars>>

\* cancel_processing: clears the flag; the thread is not interrupted.
CancelProcessing ==
    /\ is_processing
    /\ is_processing' = FALSE
    /\ cancelled_at' =
           [w \in Workers |->
               IF worker[w] = "scanning" /\ cancelled_at[w] = -1
               THEN worker_frames[w]
               ELSE cancelled_at[w]]
    /\ UNCHANGED <<worker, worker_frames, video_ok, app_region, sensitivity_var,
                   threshold_var, start_result>>
    /\ UNCHANGED <<procVars, dirVars, callVars, histVars, dcVars, selVars, twinVars>>

\* Worker, lines 162-171: the path or the region is missing; the error box
\* is shown.
WorkerValidationFails(w) ==
    /\ worker[w] = "started"
    /\ ~video_ok \/ app_region = None
    /\ worker' = [worker EXCEPT ![w] = "failed"]
    /\ UNCHANGED <<is_processing, worker_frames, video_ok, app_region, sensitivity_var,
                   threshold_var, start_result>>
    /\ UNCHANGED cancelled_at
    /\ UNCHANGED <<procVars, dirVars, callVars, histVars, dcVars, selVars, twinVars>>

\* Worker, lines 165-166 and 170-171: the box is closed, the flag cleared,
\* the thread ends.
WorkerGivesUp(w) ==
    /\ worker[w] = "failed"
    /\ worker' = [worker EXCEPT ![w] = "done"]
    /\ is_processing' = FALSE
    /\ UNCHANGED <<worker_frames, video_ok, app_region, sensitivity_var, threshold_var,
                   start_result>>
    /\ UNCHANGED cancelled_at
    /\ UNCHANGED <<procVars, dirVars, callVars, histVars, dcVars, selVars, twinVars>>

\* Worker, lines 173-181: the processor takes the parameters and
\* VideoProcessor.process_video is entered.
WorkerEntersScan(w) ==
    /\ worker[w] = "started"
    /\ video_ok
    /\ app_region # None
    /\ sensitivity' = sensitivity_var
    /\ change_threshold' = threshold_var
    /\ region' = app_region
    /\ worker' = [worker EXCEPT ![w] = "scanning"]
    /\ UNCHANGED <<is_processing, worker_frames, video_ok, app_region, sensitivity_var,
                   threshold_var, start_result>>
    /\ UNCHANGED cancelled_at
    /\ UNCHANGED <<procFixed, dirVars, callVars, histVars, dcVars, selVars, twinVars>>

\* Worker inside VideoProcessor.process_video: one iteration of its loop.
\* The loop reads no flag of the application.
WorkerReadsFrame(w) ==
    /\ worker[w] = "scanning"
    /\ worker_frames[w] < MaxWorkerFrames
    /\ worker_frames' = [worker_frames EXCEPT ![w] = @ + 1]
    /\ UNCHANGED <<is_processing, worker, video_ok, app_region, sensitivity_var,
                   threshold_var, start_result>>
    /\ UNCHANGED cancelled_at
    /\ UNCHANGED <<procVars, dirVars, callVars, histVars, dcVars, selVars, twinVars>>

\* Worker: VideoProcessor.process_video returns or raises; lines 182-188 log
\* and show the box.
WorkerLeavesScan(w) ==
    /\ worker[w] = "scanning"
    /\ worker' = [worker EXCEPT ![w] = "finishing"]
    /\ UNCHANGED <<is_processing, worker_frames, video_ok, app_region, sensitivity_var,
                   threshold_var, start_result>>
    /\ UNCHANGED cancelled_at
    /\ UNCHANGED <<procVars, dirVars, callVars, histVars, dcVars, selVars, twinVars>>

\* Worker, lines 189-192: finally clears the flag; the thread ends.
WorkerFinally(w) ==
    /\ worker[w] = "finishing"
    /\ worker' = [worker EXCEPT ![w] = "done"]
    /\ is_processing' = FALSE
    /\ UNCHANGED <<worker_frames, video_ok, app_region, sensitivity_var, threshold_var,
                   start_result>>
    /\ UNCHANGED cancelled_at
    /\ UNCHANGED <<procVars, dirVars, callVars, histVars, dcVars, selVars, twinVars>>

AppRegions == {None, <<0, 0, 1, 2>>}

SliderValues == {<<DefaultSensitivity, DefaultThreshold>>, <<25, 2>>}

NextApp ==
    \/ SelectVideo
    \/ \E rg \in AppRegions : SelectRegion(rg)
    \/ \E sl \in SliderValues : MoveSliders(sl[1], sl[2])
    \/ StartRejected
    \/ StartProcessing
    \/ CancelProcessing
    \/ \E w \in Workers : WorkerValidationFails(w)
    \/ \E w \in Workers : WorkerGivesUp(w)
    \/ \E w \in Workers : WorkerEntersScan(w)
    \/ \E w \in Workers : WorkerReadsFrame(w)
    \/ \E w \in Workers : WorkerLeavesScan(w)
    \/ \E w \in Workers : WorkerFinally(w)

SpecApp == InitApp /\ [][NextApp]_vars

Scanning == {w \in Workers : worker[w] = "scanning"}

\* C1 (as claimed): at most one worker thread is inside
\* VideoProcessor.process_video at any time.
C1_AtMostOneScan == Cardinality(Scanning) <= 1

\* ------------------------------------------------------------------------
\* Progress reporting (specification Spec)
\* ------------------------------------------------------------------------
\* The scan has not been left by an exception.
Unbroken == exit_path \in {"none", "eof", "read_failure"}

\* C11 (as claimed): every value passed to the progress callback lies in
\* [0, 100], also when the stream holds more frames than total_frames.
C11_ProgressWithinRange ==
    \A i \in 1..Len(progress_calls) :
        /\ progress_calls[i][1] >= 0
        /\ progress_calls[i][1] <= 100 * progress_calls[i][2]

\* p <= q for fractions with positive denominators
FracLeq(p, q) == p[1] * q[2] <= q[1] * p[2]

\* C12: with a callback, a scan that no exception has left has called it
\* once per consumed frame, call i with 100 * i / total_frames, the values
\* never decreasing; a scan that ended after exactly total_frames frames
\* passed 100 last.
C12_ProgressPerFrame ==
    (has_callback /\ Unbroken) =>
        /\ Len(progress_calls) = frame_count
        /\ \A i \in 1..Len(progress_calls) :
               progress_calls[i][1] * total_frames = 100 * i * progress_calls[i][2]
        /\ \A i \in 1..(Len(progress_calls) - 1) :
               FracLeq(progress_calls[i], progress_calls[i + 1])
        /\ (pc = "returned" /\ frame_count = total_frames /\ frame_count > 0) =>
               progress_calls[frame_count][1] = 100 * progress_calls[frame_count][2]

C12_Witness ==
    /\ has_callback
    /\ pc = "returned"
    /\ exit_path = "eof"
    /\ frame_count = total_frames
    /\ frame_count = MaxFrames
    /\ Len(progress_calls) = MaxFrames
    /\ Len(change_events) > 0

\* ------------------------------------------------------------------------
\* The event list and the scan state (specification Spec)
\* ------------------------------------------------------------------------
IsPrefix(s, t) == Len(s) <= Len(t) /\ SubSeq(t, 1, Len(s)) = s

EventsWellFormed ==
    /\ \A k \in 1..Len(change_events) :
           /\ change_events[k].frame_number \in Nat \ {0}
           /\ change_events[k].frame_number <= frame_count
           /\ change_events[k].time_seconds[1] * fps[1] =
                  change_events[k].frame_number * fps[2] * change_events[k].time_seconds[2]
    /\ \A k \in 1..(Len(change_events) - 1) :
           change_events[k].frame_number < change_events[k + 1].frame_number

\* C16: the event list only grows at its end while a scan runs and is what
\* the scan returns; its frame numbers are positive and strictly increasing
\* and each time_seconds is frame_number / fps.
C16_EventsAppendOnly ==
    /\ []EventsWellFormed
    /\ [][scan_no' = scan_no => IsPrefix(change_events, change_events')]_vars
    /\ [](pc = "returned" => returned = <<change_events>>)

C16_Witness ==
    /\ pc = "returned"
    /\ Len(returned[1]) >= 2
    /\ frame_count > returned[1][2].frame_number

\* The scan of lines 116-145 over the frames fs on a processor just
\* constructed (last_frame None), as the list of its events; an exception
\* of detect_change ends it.
RECURSIVE FreshScanFrom(_, _, _, _, _)
FreshScanFrom(fs, k, last, last_time, events) ==
    IF k > Len(fs)
    THEN events
    ELSE LET d == detect_change(last, fs[k], region, change_threshold)
             t == TimeOf(k, fps)
         IN  IF d.ret = "raised"
             THEN events
             ELSE IF d.ret = "True" /\ ShouldSave(t, last_time)
                  THEN FreshScanFrom(fs, k + 1, d.last_frame, t,
                           Append(events, [frame_number |-> k, time_seconds |-> t]))
                  ELSE FreshScanFrom(fs, k + 1, d.last_frame, last_time, events)

FreshScan(fs) == FreshScanFrom(fs, 1, None, <<0, 1>>, <<>>)

\* C18: a scan returns the events that the scan of the same frames returns
\* on a fresh processor with the same region and change_threshold, whatever
\* an earlier scan on the processor left behind.
C18_ScanStateReset == pc = "returned" => returned = <<FreshScan(frames_seen)>>

\* A second scan whose first frame differs from the frame the first scan
\* ended on, at 1 fps, where a first-frame detection would emit.
C18_Witness ==
    /\ pc = "returned"
    /\ scan_no = 2
    /\ fps = <<1, 1>>
    /\ change_threshold = 0
    /\ region = None
    /\ Len(frames_seen) >= 2
    /\ frames_seen[1] = PrefixFrame(White, 3)
    /\ Len(returned[1]) >= 1

\* C19: a detect_change call that returns leaves the frame it was given as
\* the stored previous frame, and frame k >= 2 of a scan is compared with
\* frame k - 1.
C19_ComparesWithPredecessor ==
    /\ dc_ret \in {"True", "False"} => last_frame = dc_cur
    /\ (dc_ret # "none" /\ Len(frames_seen) >= 2) =>
           /\ dc_cur = frames_seen[Len(frames_seen)]
           /\ dc_prev = frames_seen[Len(frames_seen) - 1]

\* Frame 3 follows a frame 2 that differs from frame 1 without being
\* flagged.
C19_Witness ==
    /\ Len(frames_seen) = 3
    /\ frames_seen[1] # frames_seen[2]
    /\ Len(flagged) = 3
    /\ flagged[2] = "False"
    /\ dc_prev = frames_seen[2]
    /\ dc_prev # frames_seen[1]

\* C20 (as claimed): a call on a stream that reports fps = 0 or
\* total_frames = 0 ends with a result or a typed error, not with a division
\* by zero, and with the handle released.
C20_ZeroMetadataGuarded ==
    (pc \in {"returned", "raised"} /\ cap_open # "none" /\ (fps[1] = 0 \/ total_frames = 0)) =>
        /\ exit_path \notin {"metadata_exception", "progress_exception"}
        /\ cap_open = "released"

\* C17 (as claimed): a worker whose scan was cancelled reads at most one
\* more frame.
C17_CancelStopsWorker ==
    \A w \in Workers : cancelled_at[w] >= 0 => worker_frames[w] <= cancelled_at[w] + 1

\* ------------------------------------------------------------------------
\* RegionSelector.select_region (specification SpecSelector)
\* ------------------------------------------------------------------------
MaxSelEvents == 3

\* (frame size, screen size) pairs: scale factors 0.45, 0.9 and 2.25
SelectorInputs ==
    {<<<<20, 10>>, <<10, 10>>>>, <<<<10, 10>>, <<10, 10>>>>, <<<<4, 4>>, <<10, 10>>>>}

\* Pointer positions the window reports, inside the displayed frame or not.
MousePoints == {<<-1, -1>>, <<0, 0>>, <<3, 2>>, <<9, 1>>, <<3, 9>>}

FracMin(a, b) == IF a[1] * b[2] <= b[1] * a[2] THEN a ELSE b

\* min(width_ratio, height_ratio) * 0.9
ScaleFactorOf(frame, screen) ==
    LET m == FracMin(<<screen[1], frame[1]>>, <<screen[2], frame[2]>>)
    IN  <<m[1] * 9, m[2] * 10>>

BelowOne(f) == f[1] < f[2]

\* int(a / b) for integers a and b > 0: rounded toward zero
TruncDiv(a, b) == IF a >= 0 THEN a \div b ELSE -((-a) \div b)

\* int(v * f) and int(v / f) for an integer v and a fraction f > 0
IntTimes(v, f) == TruncDiv(v * f[1], f[2])

IntOver(v, f) == TruncDiv(v * f[2], f[1])

InitSelector ==
    /\ constructed = FALSE
    /\ sensitivity = 0
    /\ min_scene_len = 0
    /\ region = None
    /\ last_frame = None
    /\ change_threshold = 0
    /\ dir_exists = TRUE
    /\ dir_touched = FALSE
    /\ CallIdle
    /\ DcIdle
    /\ AppIdle
    /\ SelIdle
    /\ TwinIdle

notSelVars == <<procVars, dirVars, callVars, histVars, dcVars, appVars, twinVars>>

\* select_region, lines 55-75: the scale factor and the frame displayed.
SelectStart(frame, screen) ==
    /\ sel_pc = "idle"
    /\ sel_pc' = "loop"
    /\ sel_frame' = frame
    /\ sel_screen' = screen
    /\ scale_factor' = ScaleFactorOf(frame, screen)
    /\ sel_shown' =
           IF BelowOne(ScaleFactorOf(frame, screen))
           THEN <<IntTimes(frame[1], ScaleFactorOf(frame, screen)),
                  IntTimes(frame[2], ScaleFactorOf(frame, screen))>>
           ELSE frame
    /\ UNCHANGED <<sel_region, drawing, ix, iy, sel_exit, sel_result, sel_log>>
    /\ UNCHANGED notSelVars

\* _draw_rectangle, EVENT_LBUTTONDOWN
MouseDown(pt) ==
    /\ sel_pc = "loop"
    /\ Len(sel_log) < MaxSelEvents
    /\ drawing' = TRUE
    /\ ix' = pt[1]
    /\ iy' = pt[2]
    /\ sel_log' = Append(sel_log, <<"down", pt[1], pt[2]>>)
    /\ UNCHANGED <<sel_pc, sel_frame, sel_screen, scale_factor, sel_shown, sel_region,
                   sel_exit, sel_result>>
    /\ UNCHANGED notSelVars

\* _draw_rectangle, EVENT_MOUSEMOVE: a preview is drawn, no field changes.
MouseMove ==
    /\ sel_pc = "loop"
    /\ Len(sel_log) < MaxSelEvents
    /\ sel_log' = Append(sel_log, <<"move", 0, 0>>)
    /\ UNCHANGED <<sel_pc, sel_frame, sel_screen, scale_factor, sel_shown, sel_region,
                   drawing, ix, iy, sel_exit, sel_result>>
    /\ UNCHANGED notSelVars

\* _draw_rectangle, EVENT_LBUTTONUP
MouseUp(pt) ==
    /\ sel_pc = "loop"
    /\ Len(sel_log) < MaxSelEvents
    /\ drawing' = FALSE
    /\ sel_region' =
           LET x1 == Min(ix, pt[1])
               y1 == Min(iy, pt[2])
               x2 == Max(ix, pt[1])
               y2 == Max(iy, pt[2])
           IN  <<x1, y1, x2 - x1, y2 - y1>>
    /\ sel_log' = Append(sel_log, <<"up", pt[1], pt[2]>>)
    /\ UNCHANGED <<sel_pc, sel_frame, sel_screen, scale_factor, sel_shown, ix, iy,
                   sel_exit, sel_result>>
    /\ UNCHANGED notSelVars

\* Mutant: the key r restores the picture but keeps the candidate.
KeyReset_keeps_region ==
    /\ sel_pc = "loop"
    /\ Len(sel_log) < MaxSelEvents
    /\ sel_log' = Append(sel_log, <<"reset", 0, 0>>)
    /\ UNCHANGED <<sel_pc, sel_frame, sel_screen, scale_factor, sel_shown, sel_region,
                   drawing, ix, iy, sel_exit, sel_result>>
    /\ UNCHANGED notSelVars

\* The key r, lines 93-99: the candidate is dropped, the displayed frame
\* rebuilt from the original.
KeyReset ==
    /\ sel_pc = "loop"
    /\ Len(sel_log) < MaxSelEvents
    /\ sel_region' = None
    /\ sel_shown' =
           IF BelowOne(scale_factor)
           THEN <<IntTimes(sel_frame[1], scale_factor), IntTimes(sel_frame[2], scale_factor)>>
           ELSE sel_frame
    /\ sel_log' = Append(sel_log, <<"reset", 0, 0>>)
    /\ UNCHANGED <<sel_pc, sel_frame, sel_screen, scale_factor, drawing, ix, iy,
                   sel_exit, sel_result>>
    /\ UNCHANGED notSelVars

\* Mutant: the candidate is divided by the scale factor whatever it is.
ConfirmResult_always_scales(rg, sf) ==
    IF rg # None
    THEN <<IntOver(rg[1], sf), IntOver(rg[2], sf), IntOver(rg[3], sf), IntOver(rg[4], sf)>>
    ELSE rg

\* Lines 107-116: what Enter returns for candidate rg under scale factor sf.
ConfirmResult(rg, sf) ==
    IF rg # None /\ BelowOne(sf)
    THEN <<IntOver(rg[1], sf), IntOver(rg[2], sf), IntOver(rg[3], sf), IntOver(rg[4], sf)>>
    ELSE rg

\* The key Enter, lines 90-91 and 105-116
KeyEnter ==
    /\ sel_pc = "loop"
    /\ sel_pc' = "done"
    /\ sel_exit' = "confirm"
    /\ sel_result' = ConfirmResult(sel_region, scale_factor)
    /\ UNCHANGED <<sel_frame, sel_screen, scale_factor, sel_shown, sel_region, drawing,
                   ix, iy, sel_log>>
    /\ UNCHANGED notSelVars

\* The key q, lines 101-103
KeyQuit ==
    /\ sel_pc = "loop"
    /\ sel_pc' = "done"
    /\ sel_exit' = "cancel"
    /\ sel_result' = None
    /\ UNCHANGED <<sel_frame, sel_screen, scale_factor, sel_shown, sel_region, drawing,
                   ix, iy, sel_log>>
    /\ UNCHANGED notSelVars

NextSelector ==
    \/ \E inp \in SelectorInputs : SelectStart(inp[1], inp[2])
    \/ \E pt \in MousePoints : MouseDown(pt)
    \/ MouseMove
    \/ \E pt \in MousePoints : MouseUp(pt)
    \/ KeyReset
    \/ KeyEnter
    \/ KeyQuit

SpecSelector == InitSelector /\ [][NextSelector]_vars

Confirmed == sel_exit = "confirm" /\ sel_result # None

\* C13 (as claimed): a region returned on confirm has positive width and
\* height and lies inside the original frame.
C13_ReturnedRegionValid ==
    Confirmed =>
        /\ sel_result[3] > 0
        /\ sel_result[4] > 0
        /\ sel_result[1] >= 0
        /\ sel_result[2] >= 0
        /\ sel_result[1] + sel_result[3] <= sel_frame[1]
        /\ sel_result[2] + sel_result[4] <= sel_frame[2]

\* The frame is shown at its own size: 0.9 * min(sw/fw, sh/fh) >= 1.
ShownUnscaled == 9 * sel_screen[1] >= 10 * sel_frame[1] /\ 9 * sel_screen[2] >= 10 * sel_frame[2]

\* 0.9 * min(sw/fw, sh/fh), by the smaller of the two ratios
ScaleOfCall ==
    IF sel_screen[1] * sel_frame[2] <= sel_screen[2] * sel_frame[1]
    THEN <<9 * sel_screen[1], 10 * sel_frame[1]>>
    ELSE <<9 * sel_screen[2], 10 * sel_frame[2]>>

\* q is v / f rounded toward zero
IsTruncatedQuotient(q, v, f) ==
    /\ Abs(q) * f[1] <= Abs(v) * f[2]
    /\ Abs(v) * f[2] < (Abs(q) + 1) * f[1]
    /\ v >= 0 => q >= 0
    /\ v <= 0 => q <= 0

\* C14: on confirm a candidate R is returned as R / s, each component
\* rounded toward zero, when the frame was shown scaled down by s < 1, and
\* unchanged when the frame was shown at its own size.
C14_RoundTrip ==
    Confirmed =>
        IF ShownUnscaled
        THEN sel_result = sel_region
        ELSE \A i \in 1..4 : IsTruncatedQuotient(sel_result[i], sel_region[i], ScaleOfCall)

C14_Witness ==
    /\ Confirmed
    /\ sel_frame = <<20, 10>>
    /\ sel_region = <<0, 0, 3, 2>>
    /\ sel_result = <<0, 0, 6, 4>>

Resets == {i \in 1..Len(sel_log) : sel_log[i][1] = "reset"}

\* The releases after the last reset
LiveReleases ==
    {i \in 1..Len(sel_log) : sel_log[i][1] = "up" /\ \A j \in Resets : j < i}

LastRelease == CHOOSE i \in LiveReleases : \A j \in LiveReleases : j <= i

PressesBefore(i) == {j \in 1..(i - 1) : sel_log[j][1] = "down"}

\* The corner the release at i is paired with: the last press before it, or
\* (-1, -1) of __init__.
AnchorOf(i) ==
    IF PressesBefore(i) = {}
    THEN <<-1, -1>>
    ELSE LET j == CHOOSE j \in PressesBefore(i) : \A k \in PressesBefore(i) : k <= j
         IN  <<sel_log[j][2], sel_log[j][3]>>

\* C15: cancel returns None; the candidate is the rectangle of the last
\* release after the last reset, and there is none without such a release;
\* confirm returns None exactly when there is no candidate.
C15_CandidateProtocol ==
    /\ sel_exit = "cancel" => sel_result = None
    /\ LiveReleases = {} => sel_region = None
    /\ LiveReleases # {} =>
           LET a == AnchorOf(LastRelease)
               b == <<sel_log[LastRelease][2], sel_log[LastRelease][3]>>
           IN  sel_region = <<Min(a[1], b[1]), Min(a[2], b[2]),
                              Abs(a[1] - b[1]), Abs(a[2] - b[2])>>
    /\ sel_exit = "confirm" => (sel_result = None <=> LiveReleases = {})

\* Confirm after press, release, reset.
C15_Witness ==
    /\ sel_exit = "confirm"
    /\ sel_result = None
    /\ Len(sel_log) = 3
    /\ sel_log[1][1] = "down"
    /\ sel_log[2][1] = "up"
    /\ sel_log[3][1] = "reset"

\* ------------------------------------------------------------------------
\* One video scanned by two processors (specification SpecTwin)
\* ------------------------------------------------------------------------
\* sensitivity and min_scene_len of the second processor
TwinArgs == ConstructorArgs \cup {<<100, 1>>}

InitTwin ==
    /\ constructed = FALSE
    /\ sensitivity = 0
    /\ min_scene_len = 0
    /\ region = None
    /\ last_frame = None
    /\ change_threshold = 0
    /\ dir_exists = TRUE
    /\ dir_touched = FALSE
    /\ CallIdle
    /\ DcIdle
    /\ AppIdle
    /\ SelIdle
    /\ TwinIdle

\* The frame numbers of a list of events
FrameNumbers(events) == [k \in 1..Len(events) |-> events[k].frame_number]

\* After a scan has ended, a second VideoProcessor(args) is given the region
\* and the change_threshold of the first; what the first scan did is kept
\* for comparison.
Rebuild(args) ==
    /\ pc \in {"returned", "raised"}
    /\ earlier = None
    /\ earlier' =
           <<[sensitivity |-> sensitivity,
              min_scene_len |-> min_scene_len,
              region |-> region,
              change_threshold |-> change_threshold,
              fps |-> fps,
              stream_len |-> stream_len,
              frames |-> frames_seen,
              flagged |-> flagged,
              exit_path |-> exit_path,
              event_frames |-> FrameNumbers(change_events)]>>
    /\ pc' = "idle"
    /\ sensitivity' = args[1]
    /\ min_scene_len' = args[2]
    /\ last_frame' = None
    /\ UNCHANGED <<constructed, region, change_threshold>>
    /\ UNCHANGED <<cap_open, fps, total_frames, stream_len, has_callback, frame_count,
                   last_screenshot_time, change_events, returned, scan_no>>
    /\ UNCHANGED <<dirVars, histVars, dcVars, appVars, selVars>>

\* The second scan opens the file the first one read.
SameVideo(f, len) == earlier # None => (f = earlier[1].fps /\ len = earlier[1].stream_len)

\* The second scan is delivered the frames the first one was.
SameFrame(frame) ==
    earlier # None =>
        /\ frame_count < Len(earlier[1].frames)
        /\ frame = earlier[1].frames[frame_count + 1]

NextTwin ==
    \/ \E args \in ConstructorArgs : Construct(args)
    \/ \E rg \in ScanRegions, thr \in ScanThresholds : earlier = None /\ Configure(rg, thr)
    \/ \E f \in FpsChoices, len \in LenChoices :
           SameVideo(f, len) /\ StartScan(f, len, len, FALSE)
    \/ \E frame \in ScanFrames : SameFrame(frame) /\ DetectRaises(frame)
    \/ \E frame \in ScanFrames : SameFrame(frame) /\ ProcessFrame(frame)
    \/ EndOfStream
    \/ \E args \in TwinArgs : Rebuild(args)

SpecTwin == InitTwin /\ [][NextTwin]_vars

\* The second scan is under way or over.
SecondScan == earlier # None /\ scan_no = 2 /\ pc # "idle"

Running == {w \in Workers : worker[w] \notin {"unstarted", "done"}}

\* C22 (as claimed): is_processing is set in every state in which a worker
\* thread that was started has not ended.
C22_BusyWhileWorkerRuns == Running # {} => is_processing

====
